---- MODULE Spec2Model ----
(***************************************************************************)
(* A model of the analytical engines of the market-study pipeline:         *)
(*   - CompetitorAnalysis (src/src/analysis/competitor_analysis.py)        *)
(*   - FinancialAnalyzer  (src/src/analysis/financial_analysis.py)         *)
(* and of the template and JSON writer next to them:                       *)
(*   - CompetitorDataCollector (src/src/data/competitor_data.py)           *)
(*                                                                         *)
(* Text is modelled as a sequence of one-character strings, so that        *)
(* split(','), strip() and lower() are computed character by character.    *)
(* A pandas NaN cell is the one-element sequence NaN, which is no text.    *)
(* A float is modelled as an exact fraction [num, den].                    *)
(***************************************************************************)
EXTENDS Integers, Sequences, FiniteSets, TLC

VARIABLES
    file,        \* the spreadsheet on disk at CompetitorAnalysis.data_file
    df,          \* CompetitorAnalysis.df: None, or a table (columns, rows)
    cpc,         \* position of the CompetitorAnalysis object's life cycle
    outcome,     \* how the last analyze_competitor_strengths call ended
    results,     \* the dictionary the last call returned
    development_costs,        \* FinancialAnalyzer.development_costs
    monthly_operating_costs,  \* FinancialAnalyzer.monthly_operating_costs
    unit_economics,           \* FinancialAnalyzer.unit_economics
    growth_assumptions,       \* FinancialAnalyzer.growth_assumptions
    fpc,         \* position inside perform_sensitivity_analysis
    frame,       \* the local variables of the running perform_sensitivity_analysis
    pre_call,    \* unit_economics as it was when the last call began
    sensitivity, \* the dictionary the last perform_sensitivity_analysis returned
    ret,         \* the last call of a FinancialAnalyzer method: how it ended, its value
    prev,        \* what the call before the last returned, when it was the same call
    collector    \* a CompetitorDataCollector, the directories and files around it

cvars == <<file, df, cpc, outcome, results>>

fvars == <<development_costs, monthly_operating_costs, unit_economics,
           growth_assumptions, fpc, frame, pre_call, sensitivity>>

vars == <<file, df, cpc, outcome, results, development_costs,
          monthly_operating_costs, unit_economics, growth_assumptions, fpc,
          frame, pre_call, sensitivity, ret, prev, collector>>

avars == <<ret, prev>>

-----------------------------------------------------------------------------
(* Bounds                                                                  *)

\* the largest number of data rows of a competitor spreadsheet
MaxRows == 3

-----------------------------------------------------------------------------
(* Text                                                                    *)

NaN == <<"nan">>

Space == " "
Comma == ","

\* str.lower() on one character
LowerChar(c) ==
    CASE c = "A" -> "a"
      [] c = "B" -> "b"
      [] c = "C" -> "c"
      [] c = "L" -> "l"
      [] OTHER -> c

\* str.lower()
Lower(s) == [i \in DOMAIN s |-> LowerChar(s[i])]

RECURSIVE LStrip(_)
LStrip(s) == IF s # <<>> /\ Head(s) = Space THEN LStrip(Tail(s)) ELSE s

RECURSIVE RStrip(_)
RStrip(s) ==
    IF s # <<>> /\ s[Len(s)] = Space THEN RStrip(SubSeq(s, 1, Len(s) - 1)) ELSE s

\* str.strip()
Strip(s) == RStrip(LStrip(s))

RECURSIVE SplitAcc(_, _, _)
SplitAcc(s, cur, acc) ==
    IF s = <<>> THEN Append(acc, cur)
    ELSE IF Head(s) = Comma THEN SplitAcc(Tail(s), <<>>, Append(acc, cur))
    ELSE SplitAcc(Tail(s), Append(cur, Head(s)), acc)

\* str.split(','): every comma separates, empty pieces are kept
Split(s) == SplitAcc(s, <<>>, <<>>)

RECURSIVE Flatten(_)
Flatten(ss) == IF ss = <<>> THEN <<>> ELSE Head(ss) \o Flatten(Tail(ss))

Range(s) == {s[i] : i \in DOMAIN s}

RECURSIVE Sum(_)
Sum(ns) == IF ns = <<>> THEN 0 ELSE Head(ns) + Sum(Tail(ns))

-----------------------------------------------------------------------------
(* The competitor table                                                    *)

Cols == {"Strengths", "Weaknesses", "Specialization", "Market Position"}

\* the header cells of the spreadsheet, as typed: some carry stray blanks
RawHeaders == {"Strengths", " Weaknesses", "Specialization", "Market Position "}

\* str.strip() on a header cell
StripHeader(h) ==
    CASE h = " Weaknesses" -> "Weaknesses"
      [] h = "Market Position " -> "Market Position"
      [] OTHER -> h

Row(st, wk, sp, mp) ==
    [c \in Cols |-> CASE c = "Strengths" -> st
                     [] c = "Weaknesses" -> wk
                     [] c = "Specialization" -> sp
                     [] OTHER -> mp]

\* the rows a spreadsheet is made of
SampleRows == {
    Row(<<"a", ",", "b">>, <<"a">>, <<"a", ",", "b">>, <<"L">>),
    Row(<<"a">>, NaN, <<"a">>, <<"l">>),
    Row(<<"b", ",", "c">>, <<"a", ",">>, <<"b", ",", "c">>, <<"C">>),
    Row(NaN, <<"a", ",", "b">>, <<"d", ",", "e", ",", "f">>, NaN),
    Row(<<" ">>, <<" ">>, <<"g", ",", "c", ",", "c">>, <<" ">>),
    Row(<<"a", ",", ",", "b">>, NaN, <<"B", ",", " ", "a">>, <<"L", " ">>),
    Row(<<",", "a", " ">>, <<"b">>, <<" ", ",">>, <<"c">>),
    Row(NaN, NaN, NaN, NaN)
}

RECURSIVE SeqsUpTo(_, _)
SeqsUpTo(S, n) ==
    IF n = 0 THEN {<<>>}
    ELSE LET shorter == SeqsUpTo(S, n - 1)
         IN  shorter \cup {Append(q, x) : q \in {p \in shorter : Len(p) = n - 1}, x \in S}

\* self.df = None
NoneDF == [isNone |-> TRUE, columns |-> {}, rows |-> <<>>]

\* pd.DataFrame()
EmptyDF == [isNone |-> FALSE, columns |-> {}, rows |-> <<>>]

\* pd.read_excel followed by columns.str.strip()
ReadExcel(headers, rows) ==
    LET cols == {StripHeader(h) : h \in headers}
    IN  [isNone |-> FALSE,
         columns |-> cols,
         rows |-> [i \in DOMAIN rows |->
                     [c \in Cols |-> IF c \in cols THEN rows[i][c] ELSE NaN]]]

\* DataFrame.empty: some axis has length 0
DfEmpty(d) == d.columns = {} \/ d.rows = <<>>

\* self.df[c]
Column(d, c) == [i \in DOMAIN d.rows |-> d.rows[i][c]]

\* Series.dropna()
DropNa(col) == SelectSeq(col, LAMBDA x : x # NaN)

-----------------------------------------------------------------------------
(* analyze_competitor_strengths                                            *)

\* a float, kept exact
Frac(n, d) == [num |-> n, den |-> d]
FracEq(a, b) == a.den # 0 /\ b.den # 0 /\ a.num * b.den = b.num * a.den
Zero == Frac(0, 1)

\* Series.str.split(',').str.len() on the cells that hold text; a NaN cell
\* gives NaN, which mean() skips
SplitLens(col) == [i \in DOMAIN DropNa(col) |-> Len(Split(DropNa(col)[i]))]

\* the .str accessor refuses a column that holds no text at all: a column of
\* NaN alone is read as float64
StrAccessorRaises(col) == col # <<>> /\ DropNa(col) = <<>>

\* Series.mean(): the sum over the non-NaN entries by their number
Mean(ns) == Frac(Sum(ns), Len(ns))

\* self.df[c].str.split(',').str.len().mean()
AvgPerCompetitor(col) == Mean(SplitLens(col))

\* [item.strip() for sublist in specializations for item in sublist if item.strip()]
StripTokens(cell) ==
    LET toks == Split(Lower(cell))
        kept == SelectSeq(toks, LAMBDA t : Strip(t) # <<>>)
    IN  [i \in DOMAIN kept |-> Strip(kept[i])]

AllSpecializations(col) ==
    LET cells == DropNa(col)
    IN  Flatten([i \in DOMAIN cells |-> StripTokens(cells[i])])

\* the keys of Counter(items), in the order of first insertion
RECURSIVE CounterKeys(_, _)
CounterKeys(items, seen) ==
    IF items = <<>> THEN seen
    ELSE IF Head(items) \in Range(seen) THEN CounterKeys(Tail(items), seen)
    ELSE CounterKeys(Tail(items), Append(seen, Head(items)))

CountOf(items, x) == Cardinality({i \in DOMAIN items : items[i] = x})

\* Counter(items).items(): (key, count) pairs in the order of first insertion
CounterItems(items) ==
    LET keys == CounterKeys(items, <<>>)
    IN  [i \in DOMAIN keys |-> <<keys[i], CountOf(items, keys[i])>>]

\* a ranking that puts the later of two pairs with equal counts first
BestIndexLast(pairs) ==
    CHOOSE i \in DOMAIN pairs :
        /\ \A j \in DOMAIN pairs : pairs[j][2] <= pairs[i][2]
        /\ \A j \in (i + 1)..Len(pairs) : pairs[j][2] < pairs[i][2]

\* the first pair that no pair beats: heapq.nlargest keeps the earlier of two
\* pairs with equal counts first
BestIndex(pairs) ==
    CHOOSE i \in DOMAIN pairs :
        /\ \A j \in DOMAIN pairs : pairs[j][2] <= pairs[i][2]
        /\ \A j \in 1..(i - 1) : pairs[j][2] < pairs[i][2]

RemoveAt(s, i) == SubSeq(s, 1, i - 1) \o SubSeq(s, i + 1, Len(s))

\* Counter.most_common(n)
RECURSIVE MostCommon(_, _)
MostCommon(pairs, n) ==
    IF n = 0 \/ pairs = <<>> THEN <<>>
    ELSE LET i == BestIndex(pairs)
         IN  <<pairs[i]>> \o MostCommon(RemoveAt(pairs, i), n - 1)

\* Series.value_counts().to_dict()
ValueCounts(vals) == [k \in Range(vals) |-> CountOf(vals, k)]

EmptyDict == [k \in {} |-> 0]

\* the dictionary returned when there is no data
NoDataResult ==
    [total_competitors |-> 0,
     avg_strengths_per_competitor |-> Zero,
     avg_weaknesses_per_competitor |-> Zero,
     most_common_specializations |-> <<>>,
     market_position_distribution |-> EmptyDict]

\* a guard that forgets the empty table
NoDataNoneOnly(d) == d.isNone

\* self.df is None or self.df.empty
NoData(d) == d.isNone \/ DfEmpty(d)

\* the average of one of the two text columns, 0 when the table lacks it
AvgColumn(d, c) == IF c \in d.columns THEN AvgPerCompetitor(Column(d, c)) ELSE Zero

\* a ranking that is not cut to 5 entries
MostCommonSpecializationsUncut(d) ==
    IF "Specialization" \in d.columns
    THEN LET pairs == CounterItems(AllSpecializations(Column(d, "Specialization")))
         IN  MostCommon(pairs, Len(pairs))
    ELSE <<>>

\* spec_counts.most_common(5), [] when the table lacks the column
MostCommonSpecializations(d) ==
    IF "Specialization" \in d.columns
    THEN MostCommon(CounterItems(AllSpecializations(Column(d, "Specialization"))), 5)
    ELSE <<>>

\* a distribution that keeps the letter case of the labels
MarketPositionDistributionKeepingCase(d) ==
    IF "Market Position" \in d.columns
    THEN ValueCounts(DropNa(Column(d, "Market Position")))
    ELSE EmptyDict

\* dropna().astype(str).str.lower().value_counts().to_dict(), {} when the table
\* lacks the column
MarketPositionDistribution(d) ==
    IF "Market Position" \in d.columns
    THEN LET cells == DropNa(Column(d, "Market Position"))
         IN  ValueCounts([i \in DOMAIN cells |-> Lower(cells[i])])
    ELSE EmptyDict

\* the call does not return: one of the two .str accessors raises
AnalyzeRaises(d) ==
    /\ ~NoData(d)
    /\ \E c \in {"Strengths", "Weaknesses"} :
          c \in d.columns /\ StrAccessorRaises(Column(d, c))

\* a result that counts the columns of the table instead of its records
AnalyzeResultCountingColumns(d) ==
    IF NoData(d) THEN NoDataResult
    ELSE [total_competitors |-> Cardinality(d.columns),
          avg_strengths_per_competitor |-> AvgColumn(d, "Strengths"),
          avg_weaknesses_per_competitor |-> AvgColumn(d, "Weaknesses"),
          most_common_specializations |-> MostCommonSpecializations(d),
          market_position_distribution |-> MarketPositionDistribution(d)]

\* the dictionary analyze_competitor_strengths returns
AnalyzeResult(d) ==
    IF NoData(d) THEN NoDataResult
    ELSE [total_competitors |-> Len(d.rows),
          avg_strengths_per_competitor |-> AvgColumn(d, "Strengths"),
          avg_weaknesses_per_competitor |-> AvgColumn(d, "Weaknesses"),
          most_common_specializations |-> MostCommonSpecializations(d),
          market_position_distribution |-> MarketPositionDistribution(d)]

-----------------------------------------------------------------------------
(* FinancialAnalyzer: the assumptions                                      *)

\* the assumptions __init__ sets
DefaultDevelopmentCosts ==
    [equipment_initial_purchase |-> 15000,
     software_development |-> 5000,
     initial_marketing_setup |-> 3000,
     legal_licensing |-> 2000,
     working_capital |-> 5000,
     misc_setup_costs |-> 2000]

DefaultMonthlyOperatingCosts ==
    [equipment_maintenance |-> 200,
     insurance |-> 150,
     software_subscription |-> 100,
     marketing_ads |-> 500,
     staff_salaries |-> 0,
     utilities |-> 100,
     transportation |-> 300,
     misc_operational |-> 150]

DefaultUnitEconomics ==
    [avg_transaction_value |-> 50,
     gross_margin_percentage |-> 70,
     customer_acquisition_cost |-> 25,
     monthly_churn_rate |-> 5]

DefaultGrowthAssumptions ==
    [year_1_monthly_customers_base |-> 15,
     year_1_growth_rate_monthly |-> 10,
     year_2_growth_rate_annual |-> 25,
     year_3_growth_rate_annual |-> 20]

RECURSIVE SumOver(_, _)
SumOver(d, keys) ==
    IF keys = {} THEN 0
    ELSE LET k == CHOOSE x \in keys : TRUE
         IN  d[k] + SumOver(d, keys \ {k})

\* sum(d.values())
SumValues(d) == SumOver(d, DOMAIN d)

\* calculate_total_investment with one month of operating cost for the year
calculate_total_investment_one_month(dev, monthly) ==
    LET total_development == SumValues(dev)
        total_monthly_operating == SumValues(monthly)
    IN  [total_development_cost |-> total_development,
         total_monthly_operating_cost |-> total_monthly_operating,
         first_year_operating_cost |-> total_monthly_operating,
         total_year_1_investment |-> total_development + total_monthly_operating]

\* calculate_total_investment
calculate_total_investment(dev, monthly) ==
    LET total_development == SumValues(dev)
        total_monthly_operating == SumValues(monthly)
        first_year_operating == total_monthly_operating * 12
    IN  [total_development_cost |-> total_development,
         total_monthly_operating_cost |-> total_monthly_operating,
         first_year_operating_cost |-> first_year_operating,
         total_year_1_investment |-> total_development + first_year_operating]

-----------------------------------------------------------------------------
(* FinancialAnalyzer: revenue and return on investment                     *)
(* A float amount is kept in thousandths, rounded down where a rate is     *)
(* applied.                                                                *)

Fixed(n) == n * 1000

\* x * (1 + rate/100)
Grow(x, rate) == (x * (100 + rate)) \div 100

\* the customers of year 1 growing each month by the same number, the rate
\* applied to the first month only
base_customers_additive(current_customers, rate, months) ==
    [k \in 1..months |->
        current_customers + (k - 1) * ((current_customers * rate) \div 100)]

\* the customers of the 12 months of year 1: the loop of project_revenue
RECURSIVE base_customers(_, _, _)
base_customers(current_customers, rate, months) ==
    IF months = 0 THEN <<>>
    ELSE <<current_customers>> \o base_customers(Grow(current_customers, rate), rate, months - 1)

\* x * factor, with the factor cut to a whole number first
TimesWholeFactor(x, num, den) == x * (num \div den)

\* x * factor, the factor given as num/den
Times(x, num, den) == (x * num) \div den

\* project_revenue with year 3 grown from month 12 of year 1
project_revenue_unchained(ue, growth) ==
    LET customers == base_customers(Fixed(growth.year_1_monthly_customers_base),
                                    growth.year_1_growth_rate_monthly, 12)
        year_2_customers == Grow(customers[12], growth.year_2_growth_rate_annual)
        year_3_customers == Grow(customers[12], growth.year_3_growth_rate_annual)
        monthly_revenue_year_1 ==
            [k \in DOMAIN customers |-> customers[k] * ue.avg_transaction_value]
        annual_revenue_year_1 == Sum(monthly_revenue_year_1)
        annual_revenue_year_2 == year_2_customers * ue.avg_transaction_value * 12
        annual_revenue_year_3 == year_3_customers * ue.avg_transaction_value * 12
    IN  [year_1_monthly_customers |-> customers,
         year_1_monthly_revenue |-> monthly_revenue_year_1,
         annual_revenue_year_1 |-> annual_revenue_year_1,
         base_case |->
            <<annual_revenue_year_1,
              Times(annual_revenue_year_2, 7, 10),
              Times(annual_revenue_year_3, 7, 10)>>,
         conservative_case |->
            <<Times(annual_revenue_year_1, 7, 10),
              Times(Times(annual_revenue_year_2, 7, 10), 9, 10),
              Times(Times(annual_revenue_year_3, 7, 10), 8, 10)>>,
         optimistic_case |->
            <<Times(annual_revenue_year_1, 13, 10),
              Times(annual_revenue_year_2, 13, 10),
              Times(annual_revenue_year_3, 13, 10)>>]

\* project_revenue: the year-1 series of the base case and the annual
\* revenues of the three scenarios
project_revenue(ue, growth) ==
    LET customers == base_customers(Fixed(growth.year_1_monthly_customers_base),
                                    growth.year_1_growth_rate_monthly, 12)
        year_2_customers == Grow(customers[12], growth.year_2_growth_rate_annual)
        year_3_customers == Grow(year_2_customers, growth.year_3_growth_rate_annual)
        monthly_revenue_year_1 ==
            [k \in DOMAIN customers |-> customers[k] * ue.avg_transaction_value]
        annual_revenue_year_1 == Sum(monthly_revenue_year_1)
        annual_revenue_year_2 == year_2_customers * ue.avg_transaction_value * 12
        annual_revenue_year_3 == year_3_customers * ue.avg_transaction_value * 12
    IN  [year_1_monthly_customers |-> customers,
         year_1_monthly_revenue |-> monthly_revenue_year_1,
         annual_revenue_year_1 |-> annual_revenue_year_1,
         base_case |->
            <<annual_revenue_year_1,
              Times(annual_revenue_year_2, 7, 10),
              Times(annual_revenue_year_3, 7, 10)>>,
         conservative_case |->
            <<Times(annual_revenue_year_1, 7, 10),
              Times(Times(annual_revenue_year_2, 7, 10), 9, 10),
              Times(Times(annual_revenue_year_3, 7, 10), 8, 10)>>,
         optimistic_case |->
            <<Times(annual_revenue_year_1, 13, 10),
              Times(annual_revenue_year_2, 13, 10),
              Times(annual_revenue_year_3, 13, 10)>>]

\* calculate_roi_metrics divides by the investment
RoiRaises(investment) == investment = 0

\* a first-year return that pays the acquisition cost of the first customers
roi_1_year_net_of_cac(ue, dev, monthly, investment, revenue) ==
    LET operating_costs == calculate_total_investment(dev, monthly).first_year_operating_cost
        gross_margin == (revenue.annual_revenue_year_1 * ue.gross_margin_percentage) \div 100
        total_return_1_year ==
            gross_margin - Fixed(operating_costs) - Fixed(ue.customer_acquisition_cost)
    IN  Frac(total_return_1_year, investment * 10)

\* roi_1_year of calculate_roi_metrics: (net_cash_flows[1] / investment) * 100,
\* the return in thousandths over ten times the investment
roi_1_year(ue, dev, monthly, investment, revenue) ==
    LET operating_costs == calculate_total_investment(dev, monthly).first_year_operating_cost
        gross_margin == (revenue.annual_revenue_year_1 * ue.gross_margin_percentage) \div 100
        total_return_1_year == gross_margin - Fixed(operating_costs)
    IN  Frac(total_return_1_year, investment * 10)

\* None, where the code returns a month number or an index
None == -1

\* (1 - churn_rate) ** months, in thousandths
RECURSIVE Retention(_, _)
Retention(churn, months) ==
    IF months = 0 THEN 1000
    ELSE (Retention(churn, months - 1) * (1000 - 10 * churn)) \div 1000

\* calculate_unit_economics raises: the payback denominator
\* avg_revenue_per_customer * gross_margin / 12 is zero behind a guard that
\* looks at avg_revenue_per_customer alone
UnitEconomicsRaises(ue) ==
    ue.avg_transaction_value * 12 > 0 /\ ue.gross_margin_percentage = 0

\* calculate_unit_economics
calculate_unit_economics(ue) ==
    LET cac == ue.customer_acquisition_cost
        avg_revenue_per_customer == ue.avg_transaction_value * 12
        \* avg_revenue_per_customer * gross_margin, in thousandths
        margin == avg_revenue_per_customer * ue.gross_margin_percentage * 10
        annual_churn == 1000 - Retention(ue.monthly_churn_rate, 12)
        ltv == IF annual_churn > 0 THEN (margin * 1000) \div annual_churn ELSE 0
        ltv_cac_ratio == IF cac > 0 THEN ltv \div cac ELSE 0
        payback_period_months ==
            IF avg_revenue_per_customer > 0
            THEN (Fixed(cac) * 1000) \div (margin \div 12)
            ELSE 0
    IN  [cac |-> cac,
         ltv |-> ltv,
         ltv_cac_ratio |-> ltv_cac_ratio,
         gross_margin_percentage |-> ue.gross_margin_percentage,
         monthly_churn_rate |-> ue.monthly_churn_rate,
         annual_churn_rate |-> annual_churn * 100,
         payback_period_months |-> payback_period_months]

\* the running total of a series that starts from a balance
RECURSIVE RunningTotal(_, _)
RunningTotal(start, flows) ==
    IF flows = <<>> THEN <<>>
    ELSE <<start + Head(flows)>> \o RunningTotal(start + Head(flows), Tail(flows))

\* the last place of a series whose entry is not negative, None without one
LastNonNegative(series) ==
    IF \E i \in DOMAIN series : series[i] >= 0
    THEN CHOOSE i \in DOMAIN series :
             series[i] >= 0 /\ \A j \in (i + 1)..Len(series) : series[j] < 0
    ELSE None

\* the first place of a series whose entry is not negative, None without one
FirstNonNegative(series) ==
    IF \E i \in DOMAIN series : series[i] >= 0
    THEN CHOOSE i \in DOMAIN series :
             series[i] >= 0 /\ \A j \in 1..(i - 1) : series[j] < 0
    ELSE None

\* cf / ((1 + discount_rate) ** t), discount_rate = 0.1
RECURSIVE Discount(_, _)
Discount(cf, t) == IF t = 0 THEN cf ELSE Times(Discount(cf, t - 1), 10, 11)

\* abs() that leaves a negative amount negative
AbsKeepingSign(x) == x

Abs(x) == IF x < 0 THEN 0 - x ELSE x

\* the payback loop of calculate_roi_metrics, from year index i (0-based) on
RECURSIVE PaybackFrom(_, _, _)
PaybackFrom(flows, i, cumulative) ==
    IF i >= Len(flows) THEN 0
    ELSE LET cf == flows[i + 1]
             total == cumulative + cf
         IN  IF total >= 0
             THEN (IF cf # 0 THEN Fixed(i) + (Abs(total - cf) * 1000) \div cf ELSE Fixed(i))
             ELSE PaybackFrom(flows, i + 1, total)

\* the monthly net cash flows of year 1, before any one-time cost
MonthlyNet(ue, monthly_cost, revenue) ==
    [k \in DOMAIN revenue.year_1_monthly_revenue |->
        Times(revenue.year_1_monthly_revenue[k], ue.gross_margin_percentage, 100)
            - Fixed(monthly_cost)]

\* calculate_roi_metrics
calculate_roi_metrics(ue, dev, monthly, investment, revenue) ==
    LET costs == calculate_total_investment(dev, monthly)
        gross_margins ==
            [y \in DOMAIN revenue.base_case |->
                Times(revenue.base_case[y], ue.gross_margin_percentage, 100)]
        net_cash_flows ==
            <<0 - Fixed(investment)>> \o
            [y \in DOMAIN gross_margins |->
                gross_margins[y] - Fixed(costs.first_year_operating_cost)]
        monthly_net_cash_flows == MonthlyNet(ue, costs.total_monthly_operating_cost, revenue)
        cumulative_monthly ==
            RunningTotal(0 - Fixed(costs.total_development_cost), monthly_net_cash_flows)
    IN  [break_even_month |-> FirstNonNegative(cumulative_monthly),
         payback_period_years |-> PaybackFrom(net_cash_flows, 0, 0),
         roi_1_year |-> Frac(net_cash_flows[2], investment * 10),
         roi_3_years |-> Frac(Sum(Tail(net_cash_flows)), investment * 10),
         npv |-> Sum([t \in DOMAIN net_cash_flows |-> Discount(net_cash_flows[t], t - 1)]),
         cumulative_cash_flows |-> RunningTotal(0, net_cash_flows),
         monthly_cash_flows |-> monthly_net_cash_flows,
         cumulative_monthly_cash_flows |-> cumulative_monthly]

\* the monthly net cash flows with the development cost left out
CashFlowNetWithoutSetup(ue, dev, monthly, revenue) ==
    MonthlyNet(ue, calculate_total_investment(dev, monthly).total_monthly_operating_cost,
               revenue)

\* generate_cash_flow_projection: the monthly net cash flows, the one-time
\* development cost taken from the first month
CashFlowNet(ue, dev, monthly, revenue) ==
    LET costs == calculate_total_investment(dev, monthly)
        net == MonthlyNet(ue, costs.total_monthly_operating_cost, revenue)
    IN  [net EXCEPT ![1] = @ - Fixed(costs.total_development_cost)]

\* generate_cash_flow_projection raises: the average burn divides by the
\* number of negative months
CashFlowRaises(ue, dev, monthly, growth) ==
    LET net == CashFlowNet(ue, dev, monthly, project_revenue(ue, growth))
    IN  \A k \in DOMAIN net : ~(net[k] < 0)

\* generate_cash_flow_projection
generate_cash_flow_projection(ue, dev, monthly, growth) ==
    LET costs == calculate_total_investment(dev, monthly)
        revenue == project_revenue(ue, growth)
        monthly_revenues == revenue.year_1_monthly_revenue
        monthly_gross_margins ==
            [k \in DOMAIN monthly_revenues |->
                Times(monthly_revenues[k], ue.gross_margin_percentage, 100)]
        monthly_net_cash_flows == CashFlowNet(ue, dev, monthly, revenue)
        cumulative_cash_flow == RunningTotal(0, monthly_net_cash_flows)
        negative == SelectSeq(monthly_net_cash_flows, LAMBDA cf : cf < 0)
        first == FirstNonNegative(cumulative_cash_flow)
    IN  [monthly_revenues |-> monthly_revenues,
         monthly_costs |-> [k \in 1..12 |-> Fixed(costs.total_monthly_operating_cost)],
         monthly_gross_margin |-> monthly_gross_margins,
         monthly_net_cash_flows |-> monthly_net_cash_flows,
         cumulative_cash_flow |-> cumulative_cash_flow,
         avg_burn_rate |-> Abs(Sum(negative) \div Len(negative)),
         months_to_positive_cash_flow |-> IF first = None THEN None ELSE first - 1]

-----------------------------------------------------------------------------
(* perform_sensitivity_analysis, statement by statement                    *)

cac_variations == <<20, 25, 30>>
churn_variations == <<3, 5, 7>>

\* f'CAC_{cac}'
CacKey(cac) == CASE cac = 20 -> "CAC_20" [] cac = 25 -> "CAC_25" [] OTHER -> "CAC_30"

\* f'Churn_{churn}%'
ChurnKey(churn) == CASE churn = 3 -> "Churn_3%" [] churn = 5 -> "Churn_5%" [] OTHER -> "Churn_7%"

NoFrame ==
    [i |-> 0, original_cac |-> 0, original_churn |-> 0, base_investment |-> 0,
     base_roi |-> Zero, roi_cac_sensitivity |-> EmptyDict,
     roi_churn_sensitivity |-> EmptyDict]

NoSensitivity ==
    [base_roi |-> Zero, cac_sensitivity |-> EmptyDict, churn_sensitivity |-> EmptyDict]

\* self.calculate_roi_metrics(base_investment, self.project_revenue())['roi_1_year']
Recompute(investment) ==
    roi_1_year(unit_economics, development_costs, monthly_operating_costs, investment,
               project_revenue(unit_economics, growth_assumptions))

Assumptions == <<development_costs, monthly_operating_costs, growth_assumptions>>

\* the call begins: base_revenue, base_investment and base_roi are computed
SensStart ==
    /\ fpc \in {"idle", "returned", "raised"}
    /\ LET base_investment ==
               calculate_total_investment(development_costs,
                                          monthly_operating_costs).total_year_1_investment
       IN  /\ ~RoiRaises(base_investment)
           /\ frame' = [NoFrame EXCEPT !.i = 1,
                                        !.base_investment = base_investment,
                                        !.base_roi = Recompute(base_investment)]
    /\ pre_call' = unit_economics
    /\ fpc' = "cac_override"
    /\ UNCHANGED <<collector, unit_economics, sensitivity, Assumptions, cvars, avars>>

\* the call begins and the computation of base_roi raises
SensStartRaises ==
    /\ fpc \in {"idle", "returned", "raised"}
    /\ pre_call' = unit_economics
    /\ frame' = NoFrame
    /\ fpc' = "raised"
    /\ UNCHANGED <<collector, unit_economics, sensitivity, Assumptions, cvars, avars>>

\* original_cac = ...; self.unit_economics['customer_acquisition_cost'] = cac
CacOverride ==
    /\ fpc = "cac_override"
    /\ frame' = [frame EXCEPT !.original_cac = unit_economics.customer_acquisition_cost]
    /\ unit_economics' =
          [unit_economics EXCEPT !.customer_acquisition_cost = cac_variations[frame.i]]
    /\ fpc' = "cac_recompute"
    /\ UNCHANGED <<collector, pre_call, sensitivity, Assumptions, cvars, avars>>

\* new_roi = ...; roi_cac_sensitivity[f'CAC_{cac}'] = new_roi
CacRecompute ==
    /\ fpc = "cac_recompute"
    /\ ~RoiRaises(frame.base_investment)
    /\ frame' = [frame EXCEPT !.roi_cac_sensitivity =
                     (CacKey(cac_variations[frame.i]) :> Recompute(frame.base_investment)) @@ @]
    /\ fpc' = "cac_restore"
    /\ UNCHANGED <<collector, unit_economics, pre_call, sensitivity, Assumptions, cvars, avars>>

\* the recomputation raises: the exception leaves perform_sensitivity_analysis
CacRecomputeRaises ==
    /\ fpc = "cac_recompute"
    /\ frame' = NoFrame
    /\ fpc' = "raised"
    /\ UNCHANGED <<collector, unit_economics, pre_call, sensitivity, Assumptions, cvars, avars>>

\* an iteration that ends without putting the saved CAC back
CacRestoreSkipped ==
    /\ fpc = "cac_restore"
    /\ IF frame.i < Len(cac_variations)
       THEN frame' = [frame EXCEPT !.i = @ + 1] /\ fpc' = "cac_override"
       ELSE frame' = [frame EXCEPT !.i = 1] /\ fpc' = "churn_override"
    /\ UNCHANGED <<collector, unit_economics, pre_call, sensitivity, Assumptions, cvars, avars>>

\* self.unit_economics['customer_acquisition_cost'] = original_cac; next candidate
CacRestore ==
    /\ fpc = "cac_restore"
    /\ unit_economics' =
          [unit_economics EXCEPT !.customer_acquisition_cost = frame.original_cac]
    /\ IF frame.i < Len(cac_variations)
       THEN frame' = [frame EXCEPT !.i = @ + 1] /\ fpc' = "cac_override"
       ELSE frame' = [frame EXCEPT !.i = 1] /\ fpc' = "churn_override"
    /\ UNCHANGED <<collector, pre_call, sensitivity, Assumptions, cvars, avars>>

\* a churn override that writes the CAC field as well
ChurnOverrideWithCac ==
    /\ fpc = "churn_override"
    /\ frame' = [frame EXCEPT !.original_churn = unit_economics.monthly_churn_rate]
    /\ unit_economics' =
          [unit_economics EXCEPT !.monthly_churn_rate = churn_variations[frame.i],
                                 !.customer_acquisition_cost = cac_variations[frame.i]]
    /\ fpc' = "churn_recompute"
    /\ UNCHANGED <<collector, pre_call, sensitivity, Assumptions, cvars, avars>>

\* original_churn = ...; self.unit_economics['monthly_churn_rate'] = churn
ChurnOverride ==
    /\ fpc = "churn_override"
    /\ frame' = [frame EXCEPT !.original_churn = unit_economics.monthly_churn_rate]
    /\ unit_economics' =
          [unit_economics EXCEPT !.monthly_churn_rate = churn_variations[frame.i]]
    /\ fpc' = "churn_recompute"
    /\ UNCHANGED <<collector, pre_call, sensitivity, Assumptions, cvars, avars>>

\* new_roi = ...; roi_churn_sensitivity[f'Churn_{churn}%'] = new_roi
ChurnRecompute ==
    /\ fpc = "churn_recompute"
    /\ ~RoiRaises(frame.base_investment)
    /\ frame' = [frame EXCEPT !.roi_churn_sensitivity =
                     (ChurnKey(churn_variations[frame.i]) :> Recompute(frame.base_investment)) @@ @]
    /\ fpc' = "churn_restore"
    /\ UNCHANGED <<collector, unit_economics, pre_call, sensitivity, Assumptions, cvars, avars>>

\* the recomputation raises: the exception leaves perform_sensitivity_analysis
ChurnRecomputeRaises ==
    /\ fpc = "churn_recompute"
    /\ frame' = NoFrame
    /\ fpc' = "raised"
    /\ UNCHANGED <<collector, unit_economics, pre_call, sensitivity, Assumptions, cvars, avars>>

\* the churn iteration without the write of original_churn
ChurnRestoreSkipped ==
    /\ fpc = "churn_restore"
    /\ IF frame.i < Len(churn_variations)
       THEN frame' = [frame EXCEPT !.i = @ + 1] /\ fpc' = "churn_override"
       ELSE frame' = frame /\ fpc' = "return"
    /\ UNCHANGED <<collector, unit_economics, pre_call, sensitivity, Assumptions, cvars, avars>>

\* self.unit_economics['monthly_churn_rate'] = original_churn; next candidate
ChurnRestore ==
    /\ fpc = "churn_restore"
    /\ unit_economics' =
          [unit_economics EXCEPT !.monthly_churn_rate = frame.original_churn]
    /\ IF frame.i < Len(churn_variations)
       THEN frame' = [frame EXCEPT !.i = @ + 1] /\ fpc' = "churn_override"
       ELSE frame' = frame /\ fpc' = "return"
    /\ UNCHANGED <<collector, pre_call, sensitivity, Assumptions, cvars, avars>>

\* return {'base_roi': ..., 'cac_sensitivity': ..., 'churn_sensitivity': ...}
SensReturn ==
    /\ fpc = "return"
    /\ sensitivity' = [base_roi |-> frame.base_roi,
                       cac_sensitivity |-> frame.roi_cac_sensitivity,
                       churn_sensitivity |-> frame.roi_churn_sensitivity]
    /\ frame' = NoFrame
    /\ fpc' = "returned"
    /\ UNCHANGED <<collector, unit_economics, pre_call, Assumptions, cvars, avars>>

-----------------------------------------------------------------------------
(* The CompetitorDataCollector object                                      *)

\* the directory names of the working directory
Dirs == {"data", "invalid_dir", "reports"}

\* os.path.join(directory, name)
Join(directory, name) == [dir |-> directory, name |-> name]

\* CompetitorDataCollector.__init__: both file paths are joined once, from
\* the data_dir of construction
DefaultDataDir == "data"
template_filepath == Join(DefaultDataDir, "competitor_research.xlsx")
json_filepath == Join(DefaultDataDir, "competitor_data.json")

\* a constructed collector in a working directory: the directories that
\* exist, whether a file can be written into an existing directory, the
\* files written, and the last call with what it returned (a path or None)
NoPath == Join("", "")
CollectorIn(dirs, writable) ==
    [data_dir |-> DefaultDataDir, dirs |-> dirs, writable |-> writable, files |-> {},
     method |-> "none", status |-> "none", value |-> NoPath, dir_was_missing |-> FALSE]

\* no collector is looked at
IdleCollector == CollectorIn({}, FALSE)

\* collector.data_dir = d, as the tests assign it
SetDataDir ==
    /\ \E d \in Dirs : collector' = [collector EXCEPT !.data_dir = d]
    /\ UNCHANGED <<cvars, fvars, avars>>

\* if not os.path.exists(self.data_dir): os.makedirs(self.data_dir)
MakeDataDir(c) == [c EXCEPT !.dirs = @ \cup {c.data_dir}]

\* writing a file: df.to_excel(path), open(path, 'w') raise when the
\* directory of the path does not exist or the file cannot be written
WriteRaises(c, path) == path.dir \notin c.dirs \/ ~c.writable

\* the body shared by create_competitor_template and save_competitor_data:
\* make data_dir, try to write the file at the path of construction, return
\* the path, or None when the write raised
WriteAt(method, path) ==
    LET made == MakeDataDir(collector)
    IN  collector' =
            IF WriteRaises(made, path)
            THEN [made EXCEPT !.method = method, !.status = "returned", !.value = NoPath,
                              !.dir_was_missing = collector.data_dir \notin collector.dirs]
            ELSE [made EXCEPT !.method = method, !.status = "returned", !.value = path,
                              !.files = @ \cup {path},
                              !.dir_was_missing = collector.data_dir \notin collector.dirs]

create_competitor_template ==
    /\ WriteAt("create_competitor_template", template_filepath)
    /\ UNCHANGED <<cvars, fvars, avars>>

save_competitor_data ==
    /\ WriteAt("save_competitor_data", json_filepath)
    /\ UNCHANGED <<cvars, fvars, avars>>

-----------------------------------------------------------------------------
(* The CompetitorAnalysis object                                           *)

\* no value
NoValue == <<>>

\* no method of the analyzer has been called; entry holds the assumption fields
\* as the last call found them, argument the investment it was given, again
\* and before tell of the call before it when that was the same call
BlankRet ==
    [method |-> "none", status |-> "none",
     investment_summary |-> NoValue, revenue_projections |-> NoValue,
     unit_economics |-> NoValue, roi_analysis |-> NoValue,
     cash_flow_projection |-> NoValue,
     argument |-> 0, entry |-> NoValue, again |-> FALSE, before |-> NoValue]

\* no earlier call to compare the last call with
NoPrev == [valid |-> FALSE, outcome |-> "none", value |-> NoValue]

\* FinancialAnalyzer.__init__
FinDefaults ==
    /\ development_costs = DefaultDevelopmentCosts
    /\ monthly_operating_costs = DefaultMonthlyOperatingCosts
    /\ unit_economics = DefaultUnitEconomics
    /\ growth_assumptions = DefaultGrowthAssumptions
    /\ fpc = "idle"
    /\ frame = NoFrame
    /\ pre_call = DefaultUnitEconomics
    /\ sensitivity = NoSensitivity
    /\ ret = BlankRet

\* the spreadsheet at self.data_file
MissingFile == [exists |-> FALSE, readable |-> FALSE, headers |-> {}, rows |-> <<>>]
UnreadableFile == [exists |-> TRUE, readable |-> FALSE, headers |-> {}, rows |-> <<>>]
Files ==
    {MissingFile, UnreadableFile} \cup
    {[exists |-> TRUE, readable |-> TRUE, headers |-> h, rows |-> r] :
        h \in SUBSET RawHeaders, r \in SeqsUpTo(SampleRows, MaxRows)}

\* __init__ up to the call of _load_data
CompInit ==
    /\ file \in Files
    /\ df = NoneDF
    /\ cpc = "constructing"
    /\ outcome = "none"
    /\ results = NoDataResult
    /\ prev = NoPrev
    /\ collector = IdleCollector
    /\ FinDefaults

\* _load_data, os.path.exists is false
LoadMissing ==
    /\ ~file.exists
    /\ df' = EmptyDF
    /\ cpc' = "ready"
    /\ outcome' = "none"
    /\ results' = NoDataResult
    /\ prev' = NoPrev
    /\ UNCHANGED <<collector, file, fvars, ret>>

\* _load_data, pd.read_excel raises
LoadUnreadable ==
    /\ file.exists /\ ~file.readable
    /\ df' = EmptyDF
    /\ cpc' = "ready"
    /\ outcome' = "none"
    /\ results' = NoDataResult
    /\ prev' = NoPrev
    /\ UNCHANGED <<collector, file, fvars, ret>>

\* _load_data, the file is read
LoadTable ==
    /\ file.exists /\ file.readable
    /\ df' = ReadExcel(file.headers, file.rows)
    /\ cpc' = "ready"
    /\ outcome' = "none"
    /\ results' = NoDataResult
    /\ prev' = NoPrev
    /\ UNCHANGED <<collector, file, fvars, ret>>

\* analyze_competitor_strengths on the constructed object
analyze_competitor_strengths ==
    /\ cpc = "ready"
    /\ IF AnalyzeRaises(df)
       THEN outcome' = "raised" /\ results' = results
       ELSE outcome' = "returned" /\ results' = AnalyzeResult(df)
    /\ prev' = [valid |-> outcome # "none", outcome |-> outcome, value |-> results]
    /\ UNCHANGED <<collector, file, df, cpc, fvars, ret>>

CompNext == LoadMissing \/ LoadUnreadable \/ LoadTable \/ analyze_competitor_strengths

CompSpec == CompInit /\ [][CompNext]_vars

-----------------------------------------------------------------------------
(* The FinancialAnalyzer object                                            *)

\* the values a caller has given the two swept fields before the call
CacInputs == {0, 20, 25, 40}
ChurnInputs == {0, 5, 7, 12}

ZeroCosts(d) == [k \in DOMAIN d |-> 0]

\* the cost assumptions a caller has set: the defaults, no development cost,
\* no cost at all
CostInputs ==
    {<<DefaultDevelopmentCosts, DefaultMonthlyOperatingCosts>>,
     <<ZeroCosts(DefaultDevelopmentCosts), DefaultMonthlyOperatingCosts>>,
     <<ZeroCosts(DefaultDevelopmentCosts), ZeroCosts(DefaultMonthlyOperatingCosts)>>}

\* a constructed analyzer whose public assumption fields a caller has set
FinInit ==
    /\ \E costs \in CostInputs :
          development_costs = costs[1] /\ monthly_operating_costs = costs[2]
    /\ \E cac \in CacInputs, churn \in ChurnInputs :
          unit_economics = [DefaultUnitEconomics EXCEPT !.customer_acquisition_cost = cac,
                                                        !.monthly_churn_rate = churn]
    /\ growth_assumptions = DefaultGrowthAssumptions
    /\ fpc = "idle"
    /\ frame = NoFrame
    /\ pre_call = unit_economics
    /\ sensitivity = NoSensitivity
    /\ file = MissingFile
    /\ df = NoneDF
    /\ cpc = "constructing"
    /\ outcome = "none"
    /\ results = NoDataResult
    /\ ret = BlankRet
    /\ prev = NoPrev
    /\ collector = IdleCollector

FinNext ==
    \/ SensStart \/ SensStartRaises
    \/ CacOverride \/ CacRecompute \/ CacRecomputeRaises \/ CacRestore
    \/ ChurnOverride \/ ChurnRecompute \/ ChurnRecomputeRaises \/ ChurnRestore
    \/ SensReturn

FinSpec == FinInit /\ [][FinNext]_vars

-----------------------------------------------------------------------------
(* Calls of the methods of a FinancialAnalyzer                             *)

\* the four assumption fields of the analyzer
AllAssumptions ==
    [development_costs |-> development_costs,
     monthly_operating_costs |-> monthly_operating_costs,
     unit_economics |-> unit_economics,
     growth_assumptions |-> growth_assumptions]

DefaultAssumptions ==
    [development_costs |-> DefaultDevelopmentCosts,
     monthly_operating_costs |-> DefaultMonthlyOperatingCosts,
     unit_economics |-> DefaultUnitEconomics,
     growth_assumptions |-> DefaultGrowthAssumptions]

\* no call of the analyzer is in progress
CallIdle == ret.status # "running"

\* a call of a method begins
Entered(method) == [BlankRet EXCEPT !.method = method, !.entry = AllAssumptions]

\* analyzer.calculate_total_investment()
CallTotalInvestment ==
    /\ CallIdle
    /\ ret' = [Entered("calculate_total_investment") EXCEPT
                  !.status = "returned",
                  !.investment_summary =
                      calculate_total_investment(development_costs, monthly_operating_costs)]
    /\ UNCHANGED <<collector, fvars, cvars, prev>>

\* project_revenue that keeps the month-12 customer count as the next base
CallProjectRevenueKeepingCount ==
    /\ CallIdle
    /\ ret' = [Entered("project_revenue") EXCEPT
                  !.status = "returned",
                  !.revenue_projections = project_revenue(unit_economics, growth_assumptions),
                  !.again = (ret.method = "project_revenue"),
                  !.before = ret.revenue_projections]
    /\ growth_assumptions' =
          [growth_assumptions EXCEPT !.year_1_monthly_customers_base =
              project_revenue(unit_economics, growth_assumptions).year_1_monthly_customers[12]
                  \div 1000]
    /\ UNCHANGED <<collector, development_costs, monthly_operating_costs, unit_economics,
                   fpc, frame, pre_call, sensitivity, cvars, prev>>

\* analyzer.project_revenue()
CallProjectRevenue ==
    /\ CallIdle
    /\ ret' = [Entered("project_revenue") EXCEPT
                  !.status = "returned",
                  !.revenue_projections = project_revenue(unit_economics, growth_assumptions),
                  !.again = (ret.method = "project_revenue"),
                  !.before = ret.revenue_projections]
    /\ UNCHANGED <<collector, fvars, cvars, prev>>

\* analyzer.calculate_unit_economics()
CallUnitEconomics ==
    /\ CallIdle
    /\ ret' = IF UnitEconomicsRaises(unit_economics)
              THEN [Entered("calculate_unit_economics") EXCEPT !.status = "raised"]
              ELSE [Entered("calculate_unit_economics") EXCEPT
                       !.status = "returned",
                       !.unit_economics = calculate_unit_economics(unit_economics)]
    /\ UNCHANGED <<collector, fvars, cvars, prev>>

\* the investments a caller passes to calculate_roi_metrics: none, or the
\* total of calculate_total_investment
InvestmentInputs ==
    {0, calculate_total_investment(development_costs,
                                   monthly_operating_costs).total_year_1_investment}

\* analyzer.calculate_roi_metrics(investment, analyzer.project_revenue())
CallRoiMetrics ==
    /\ CallIdle
    /\ \E investment \in InvestmentInputs :
          ret' = IF RoiRaises(investment)
                 THEN [Entered("calculate_roi_metrics") EXCEPT
                          !.status = "raised", !.argument = investment]
                 ELSE [Entered("calculate_roi_metrics") EXCEPT
                          !.status = "returned", !.argument = investment,
                          !.roi_analysis =
                              calculate_roi_metrics(unit_economics, development_costs,
                                  monthly_operating_costs, investment,
                                  project_revenue(unit_economics, growth_assumptions))]
    /\ UNCHANGED <<collector, fvars, cvars, prev>>

\* analyzer.generate_cash_flow_projection()
CallCashFlow ==
    /\ CallIdle
    /\ ret' = IF CashFlowRaises(unit_economics, development_costs,
                                monthly_operating_costs, growth_assumptions)
              THEN [Entered("generate_cash_flow_projection") EXCEPT !.status = "raised"]
              ELSE [Entered("generate_cash_flow_projection") EXCEPT
                       !.status = "returned",
                       !.cash_flow_projection =
                           generate_cash_flow_projection(unit_economics, development_costs,
                               monthly_operating_costs, growth_assumptions)]
    /\ UNCHANGED <<collector, fvars, cvars, prev>>

\* run_full_financial_analysis up to the call of perform_sensitivity_analysis:
\* the five results are computed in order, the first exception leaves the call
RunStart ==
    /\ CallIdle
    /\ LET entered == Entered("run_full_financial_analysis")
           investment ==
               calculate_total_investment(development_costs, monthly_operating_costs)
           revenue == project_revenue(unit_economics, growth_assumptions)
       IN  ret' =
             IF \/ UnitEconomicsRaises(unit_economics)
                \/ RoiRaises(investment.total_year_1_investment)
                \/ CashFlowRaises(unit_economics, development_costs,
                                  monthly_operating_costs, growth_assumptions)
             THEN [entered EXCEPT !.status = "raised"]
             ELSE [entered EXCEPT
                      !.status = "running",
                      !.investment_summary = investment,
                      !.revenue_projections = revenue,
                      !.unit_economics = calculate_unit_economics(unit_economics),
                      !.roi_analysis =
                          calculate_roi_metrics(unit_economics, development_costs,
                              monthly_operating_costs,
                              investment.total_year_1_investment, revenue),
                      !.cash_flow_projection =
                          generate_cash_flow_projection(unit_economics, development_costs,
                              monthly_operating_costs, growth_assumptions)]
    /\ fpc' = "idle"
    /\ frame' = NoFrame
    /\ UNCHANGED <<collector, unit_economics, pre_call, sensitivity, Assumptions, cvars, prev>>

\* run_full_financial_analysis inside its call of perform_sensitivity_analysis
RunSensitivity ==
    /\ ret.status = "running"
    /\ fpc # "returned"
    /\ \/ SensStart
       \/ CacOverride \/ CacRecompute \/ CacRestore
       \/ ChurnOverride \/ ChurnRecompute \/ ChurnRestore
       \/ SensReturn

\* run_full_financial_analysis returns the dictionary of the six results
RunReturn ==
    /\ ret.status = "running"
    /\ fpc = "returned"
    /\ ret' = [ret EXCEPT !.status = "returned"]
    /\ UNCHANGED <<collector, fvars, cvars, prev>>

\* the unit economics a caller has set: each field at its default or at zero
UnitEconomicsInputs ==
    {[avg_transaction_value |-> atv, gross_margin_percentage |-> gm,
      customer_acquisition_cost |-> cac, monthly_churn_rate |-> churn] :
        atv \in {0, DefaultUnitEconomics.avg_transaction_value},
        gm \in {0, DefaultUnitEconomics.gross_margin_percentage},
        cac \in {0, DefaultUnitEconomics.customer_acquisition_cost},
        churn \in {0, DefaultUnitEconomics.monthly_churn_rate}}

\* the growth assumptions a caller has set: the defaults, or a smaller
\* start with other rates
GrowthInputs ==
    {DefaultGrowthAssumptions,
     [year_1_monthly_customers_base |-> 10,
      year_1_growth_rate_monthly |-> 5,
      year_2_growth_rate_annual |-> 10,
      year_3_growth_rate_annual |-> 50]}

\* a business with one small setup cost and no running cost
SetupOnly ==
    <<[ZeroCosts(DefaultDevelopmentCosts) EXCEPT !.misc_setup_costs = 100],
      ZeroCosts(DefaultMonthlyOperatingCosts)>>

\* a business with one larger setup cost and no running cost
SetupHeavy ==
    <<[ZeroCosts(DefaultDevelopmentCosts) EXCEPT !.misc_setup_costs = 2000],
      ZeroCosts(DefaultMonthlyOperatingCosts)>>

\* the spreadsheets next to the analyzer: none, the untouched template, a
\* table of two records
CallFiles ==
    {MissingFile,
     [exists |-> TRUE, readable |-> TRUE, headers |-> RawHeaders,
      rows |-> <<Row(NaN, NaN, NaN, NaN)>>],
     [exists |-> TRUE, readable |-> TRUE, headers |-> RawHeaders,
      rows |-> <<Row(<<"a", ",", "b">>, <<"a">>, <<"a", ",", "b">>, <<"L">>),
                 Row(<<"b", ",", "c">>, <<"a", ",">>, <<"b", ",", "c">>, <<"C">>)>>]}

\* a constructed analyzer whose assumption fields a caller has set, and a
\* CompetitorAnalysis under construction
CallInit ==
    /\ \E costs \in CostInputs \cup {SetupOnly, SetupHeavy} :
          development_costs = costs[1] /\ monthly_operating_costs = costs[2]
    /\ unit_economics \in UnitEconomicsInputs
    /\ growth_assumptions \in GrowthInputs
    /\ growth_assumptions # DefaultGrowthAssumptions =>
          development_costs = DefaultDevelopmentCosts
    /\ fpc = "idle"
    /\ frame = NoFrame
    /\ pre_call = unit_economics
    /\ sensitivity = NoSensitivity
    /\ ret = BlankRet
    /\ file \in CallFiles
    /\ df = NoneDF
    /\ cpc = "constructing"
    /\ outcome = "none"
    /\ results = NoDataResult
    /\ prev = NoPrev
    /\ collector = IdleCollector

CallNext ==
    \/ CallTotalInvestment \/ CallProjectRevenue \/ CallUnitEconomics
    \/ CallRoiMetrics \/ CallCashFlow
    \/ RunStart \/ RunSensitivity \/ RunReturn
    \/ LoadMissing \/ LoadTable \/ analyze_competitor_strengths

CallSpec == CallInit /\ [][CallNext]_vars

-----------------------------------------------------------------------------
(* A CompetitorDataCollector in its working directory                     *)

DataInit ==
    /\ \E dirs \in SUBSET Dirs, writable \in BOOLEAN :
          collector = CollectorIn(dirs, writable)
    /\ FinDefaults
    /\ prev = NoPrev
    /\ file = MissingFile
    /\ df = NoneDF
    /\ cpc = "constructing"
    /\ outcome = "none"
    /\ results = NoDataResult

DataNext == SetDataDir \/ create_competitor_template \/ save_competitor_data

DataSpec == DataInit /\ [][DataNext]_vars

-----------------------------------------------------------------------------
(* Properties of analyze_competitor_strengths                              *)

Returned == outcome = "returned"

\* the table is absent, or has no record, or has no column
EmptyOrAbsent == df.isNone \/ Len(df.rows) = 0 \/ Cardinality(df.columns) = 0

\* the cells of a column of the loaded table
Cells(c) == Column(df, c)

Blank(cell) == cell = NaN \/ Strip(cell) = <<>>

TextColumns == {"Strengths", "Weaknesses"}

AvgOf(c) ==
    IF c = "Strengths" THEN results.avg_strengths_per_competitor
    ELSE results.avg_weaknesses_per_competitor

\* C3: on an empty or absent table the call returns, and returns the no-data
\* result: no competitors, both averages 0, no specializations, no positions.
C3_EmptyTableGivesNoDataResult ==
    (outcome # "none" /\ EmptyOrAbsent) =>
        /\ outcome = "returned"
        /\ results.total_competitors = 0
        /\ FracEq(results.avg_strengths_per_competitor, Zero)
        /\ FracEq(results.avg_weaknesses_per_competitor, Zero)
        /\ results.most_common_specializations = <<>>
        /\ DOMAIN results.market_position_distribution = {}

\* a call has returned on a table that has headers and no rows
C3_Witness == Returned /\ df.columns # {} /\ df.rows = <<>>

\* the number of pieces of a field, a blank or missing field counting 0
CountBlankAsZero(cell) == IF Blank(cell) THEN 0 ELSE Len(Split(cell))

\* C4 as stated: a blank or missing field counts 0 and its record still
\* counts in the denominator, so the average is the sum of the per-record
\* counts by the number of records.
C4_BlankCountsZeroInDenominator ==
    \A c \in TextColumns :
        (Returned /\ ~EmptyOrAbsent /\ c \in df.columns) =>
            FracEq(AvgOf(c),
                   Frac(Sum([i \in DOMAIN Cells(c) |-> CountBlankAsZero(Cells(c)[i])]),
                        results.total_competitors))

\* the number of pieces of a field that are not blank once trimmed
NonBlankTokens(cell) ==
    IF cell = NaN THEN 0
    ELSE Len(SelectSeq(Split(cell), LAMBDA t : Strip(t) # <<>>))

\* C5 as stated: the per-record count behind the averages is the number of
\* comma-separated pieces that are not blank after trimming (stated on the
\* tables whose column has no missing cell, where the denominator is the
\* number of records).
C5_CountIsNonBlankTokens ==
    \A c \in TextColumns :
        (Returned /\ ~EmptyOrAbsent /\ c \in df.columns /\ DropNa(Cells(c)) = Cells(c)) =>
            FracEq(AvgOf(c),
                   Frac(Sum([i \in DOMAIN Cells(c) |-> NonBlankTokens(Cells(c)[i])]),
                        Len(Cells(c))))

Positions == Cells("Market Position")

UpperChars == {"A", "B", "C", "L"}

\* C6 as stated: every key of the distribution is an input label, character
\* for character.
C6_KeysAreInputLabels ==
    (Returned /\ ~EmptyOrAbsent) =>
        \A k \in DOMAIN results.market_position_distribution :
            \E i \in DOMAIN Positions : Positions[i] = k

\* C6 as amended: the keys are the labels in lower case. No key holds an upper
\* case letter, every key is the lower-cased form of a label of the table, and
\* the count of a key is the number of records whose label, whatever its
\* letter case, lower-cases to it.
C6_KeysAreLowerCasedLabels ==
    (Returned /\ ~EmptyOrAbsent) =>
        LET dist == results.market_position_distribution
        IN  /\ \A k \in DOMAIN dist : \A j \in DOMAIN k : k[j] \notin UpperChars
            /\ \A k \in DOMAIN dist :
                  /\ \E i \in DOMAIN Positions :
                        Positions[i] # NaN /\ Lower(Positions[i]) = k
                  /\ dist[k] = Cardinality({i \in DOMAIN Positions :
                                   Positions[i] # NaN /\ Lower(Positions[i]) = k})
            /\ \A i \in DOMAIN Positions :
                  ("Market Position" \in df.columns /\ Positions[i] # NaN) =>
                      Lower(Positions[i]) \in DOMAIN dist

\* two records whose labels differ in letter case only share one key
C6_Witness ==
    /\ Returned
    /\ \E i, j \in DOMAIN Positions : Positions[i] = <<"L">> /\ Positions[j] = <<"l">>
    /\ results.market_position_distribution[<<"l">>] >= 2

\* C7 as stated: no blank key appears in the distribution, and its counts sum
\* to the number of records whose position is not blank.
C7_BlankPositionsExcluded ==
    (Returned /\ ~EmptyOrAbsent) =>
        LET dist == results.market_position_distribution
        IN  /\ \A k \in DOMAIN dist : Strip(k) # <<>>
            /\ \A k \in DOMAIN dist :
                  dist[k] = Cardinality({i \in DOMAIN Positions :
                                ~Blank(Positions[i]) /\ Lower(Positions[i]) = k})

Ranking == results.most_common_specializations

NonIncreasing(pairs) ==
    \A i \in DOMAIN pairs : \A j \in DOMAIN pairs : i < j => pairs[i][2] >= pairs[j][2]

\* the trimmed, non-empty pieces of a column's fields, letter case kept
RECURSIVE TokensKeepingCase(_)
TokensKeepingCase(col) ==
    IF col = <<>> THEN <<>>
    ELSE LET cell == Head(col)
             toks == IF cell = NaN THEN <<>>
                     ELSE SelectSeq(Split(cell), LAMBDA t : Strip(t) # <<>>)
         IN  [i \in DOMAIN toks |-> Strip(toks[i])] \o TokensKeepingCase(Tail(col))

\* the trimmed, non-empty pieces of a column's fields, in lower case
TokensLowered(col) ==
    LET toks == TokensKeepingCase(col) IN [i \in DOMAIN toks |-> Lower(toks[i])]

\* pairs tallies items: each pair is an item with its number of occurrences,
\* and no item is listed twice
Tallies(pairs, items) ==
    /\ \A i \in DOMAIN pairs :
          /\ pairs[i][1] \in Range(items)
          /\ pairs[i][2] = CountOf(items, pairs[i][1])
    /\ \A i \in DOMAIN pairs : \A j \in DOMAIN pairs : i # j => pairs[i][1] # pairs[j][1]

Min(a, b) == IF a < b THEN a ELSE b

FirstIndex(items, x) == CHOOSE i \in DOMAIN items : items[i] = x /\ \A j \in 1..(i - 1) : items[j] # x

\* p ranks before q: more frequent, or as frequent and seen first
RanksBefore(items, p, q) ==
    \/ p[2] > q[2]
    \/ p[2] = q[2] /\ FirstIndex(items, p[1]) < FirstIndex(items, q[1])

C10_TotalIsNumberOfRecords ==
    (Returned /\ ~EmptyOrAbsent) => results.total_competitors = Len(file.rows)

\* a call has returned on a table of several records
C10_Witness == Returned /\ ~EmptyOrAbsent /\ Len(file.rows) >= 2 /\ results.total_competitors >= 2

\* the statistic of a column of the table has its no-data value
NoDataValueOf(c) ==
    IF c \in TextColumns THEN FracEq(AvgOf(c), Zero)
    ELSE IF c = "Specialization" THEN results.most_common_specializations = <<>>
    ELSE DOMAIN results.market_position_distribution = {}

\* C11 as stated: on a non-empty table that lacks some of the four columns
\* the call does not raise, and the statistic of every missing column has its
\* no-data value: average 0, empty list, empty distribution.
C11_MissingColumnsDoNotRaise ==
    (outcome # "none" /\ ~EmptyOrAbsent /\ Cols \ df.columns # {}) =>
        /\ Returned
        /\ \A c \in Cols \ df.columns : NoDataValueOf(c)

\* C20 as stated: for a data file that does not exist, the table is None once
\* the object is constructed, and is still None after a further _load_data.
C20_MissingFileLeavesTableAbsent == (cpc = "ready" /\ ~file.exists) => df.isNone

-----------------------------------------------------------------------------
(* Properties of the methods of a FinancialAnalyzer                        *)

\* the last call was of this method and has returned
ReturnedFrom(method) == ret.method = method /\ ret.status = "returned"

\* the last call was of this method and an exception left it
RaisedIn(method) == ret.method = method /\ ret.status = "raised"

\* the call found the analyzer with the assumptions of __init__
FromDefaults == ret.entry = DefaultAssumptions

DevelopmentTotal(d) ==
    d.equipment_initial_purchase + d.software_development + d.initial_marketing_setup
        + d.legal_licensing + d.working_capital + d.misc_setup_costs

MonthlyTotal(m) ==
    m.equipment_maintenance + m.insurance + m.software_subscription + m.marketing_ads
        + m.staff_salaries + m.utilities + m.transportation + m.misc_operational

\* C12: calculate_total_investment returns the sum of the development costs,
\* twelve times the sum of the monthly operating costs, and the sum of the
\* two; with the default assumptions these are 32000, 18000 and 50000.
C12_TotalInvestmentSums ==
    ReturnedFrom("calculate_total_investment") =>
        LET r == ret.investment_summary
        IN  /\ r.total_development_cost = DevelopmentTotal(ret.entry.development_costs)
            /\ r.first_year_operating_cost =
                   12 * MonthlyTotal(ret.entry.monthly_operating_costs)
            /\ r.total_year_1_investment =
                   r.total_development_cost + r.first_year_operating_cost
            /\ FromDefaults =>
                   /\ r.total_development_cost = 32000
                   /\ r.first_year_operating_cost = 18000
                   /\ r.total_year_1_investment = 50000

\* calculate_total_investment has returned for the default assumptions
C12_Witness ==
    /\ ReturnedFrom("calculate_total_investment")
    /\ FromDefaults
    /\ ret.investment_summary.total_year_1_investment = 50000

\* every entry of a series of amounts is zero or more
NonNegative(series) == \A k \in DOMAIN series : series[k] >= 0

\* in the result of run_full_financial_analysis: the investment totals, the
\* monthly and annual revenues, the costs, the gross margins, the LTV and the
\* average burn rate are all zero or more
AmountsNonNegative ==
    /\ ret.investment_summary.total_development_cost >= 0
    /\ ret.investment_summary.total_monthly_operating_cost >= 0
    /\ ret.investment_summary.first_year_operating_cost >= 0
    /\ ret.investment_summary.total_year_1_investment >= 0
    /\ NonNegative(ret.revenue_projections.year_1_monthly_revenue)
    /\ ret.revenue_projections.annual_revenue_year_1 >= 0
    /\ NonNegative(ret.revenue_projections.base_case)
    /\ NonNegative(ret.revenue_projections.conservative_case)
    /\ NonNegative(ret.revenue_projections.optimistic_case)
    /\ ret.unit_economics.cac >= 0
    /\ ret.unit_economics.ltv >= 0
    /\ NonNegative(ret.cash_flow_projection.monthly_revenues)
    /\ NonNegative(ret.cash_flow_projection.monthly_costs)
    /\ NonNegative(ret.cash_flow_projection.monthly_gross_margin)
    /\ ret.cash_flow_projection.avg_burn_rate >= 0

\* in the result of run_full_financial_analysis: the NPV and the three
\* cumulative cash-flow series are zero or more
TotalsNonNegative ==
    /\ ret.roi_analysis.npv >= 0
    /\ NonNegative(ret.roi_analysis.cumulative_cash_flows)
    /\ NonNegative(ret.roi_analysis.cumulative_monthly_cash_flows)
    /\ NonNegative(ret.cash_flow_projection.cumulative_cash_flow)

\* C13 as stated: in the projection returned by run_full_financial_analysis
\* every monetary value other than the net cash flow entries is non-negative,
\* the NPV and the cumulative cash-flow series included.
C13_AllAmountsNonNegative ==
    ReturnedFrom("run_full_financial_analysis") =>
        AmountsNonNegative /\ TotalsNonNegative

\* C13, amended: in the projection returned by run_full_financial_analysis
\* the investment totals, the revenues, the costs, the gross margins, the
\* LTV and avg_burn_rate are non-negative; the net cash flows, the NPV and
\* the cumulative series may be negative.
C13_AmountsNonNegative ==
    ReturnedFrom("run_full_financial_analysis") => AmountsNonNegative

\* run_full_financial_analysis has returned for the default assumptions, with
\* a positive LTV and burn rate and a negative NPV
C13_Witness ==
    /\ ReturnedFrom("run_full_financial_analysis")
    /\ FromDefaults
    /\ ret.unit_economics.ltv > 0
    /\ ret.cash_flow_projection.avg_burn_rate > 0
    /\ ret.roi_analysis.npv < 0

\* C14 as stated: calculate_roi_metrics called with investment = 0 does not
\* raise and returns 0 for roi_1_year and roi_3_years.
C14_ZeroInvestmentGivesZeroRoi ==
    (ret.method = "calculate_roi_metrics" /\ ret.argument = 0) =>
        /\ ret.status = "returned"
        /\ FracEq(ret.roi_analysis.roi_1_year, Zero)
        /\ FracEq(ret.roi_analysis.roi_3_years, Zero)

\* C15 as stated: generate_cash_flow_projection does not raise when none of
\* the twelve monthly net cash flows is negative, and avg_burn_rate is then 0.
C15_NoNegativeMonthGivesZeroBurnRate ==
    LET e == ret.entry
        net == CashFlowNet(e.unit_economics, e.development_costs,
                           e.monthly_operating_costs,
                           project_revenue(e.unit_economics, e.growth_assumptions))
    IN  (/\ ret.method = "generate_cash_flow_projection"
         /\ \A k \in DOMAIN net : net[k] >= 0) =>
            /\ ret.status = "returned"
            /\ ret.cash_flow_projection.avg_burn_rate = 0

\* C16 as stated: calculate_unit_economics returns ltv = 0 when the monthly
\* churn is 0, ltv_cac_ratio = 0 when the CAC is 0 and payback_period_months
\* = 0 when the average transaction value is 0, and raises in none of these
\* cases nor in any combination of them.
C16_ZeroGuardsOfUnitEconomics ==
    LET ue == ret.entry.unit_economics
        r == ret.unit_economics
    IN  (/\ ret.method = "calculate_unit_economics"
         /\ \/ ue.monthly_churn_rate = 0
            \/ ue.customer_acquisition_cost = 0
            \/ ue.avg_transaction_value = 0) =>
            /\ ret.status = "returned"
            /\ ue.monthly_churn_rate = 0 => r.ltv = 0
            /\ ue.customer_acquisition_cost = 0 => r.ltv_cac_ratio = 0
            /\ ue.avg_transaction_value = 0 => r.payback_period_months = 0

\* C17: run_full_financial_analysis on a freshly constructed analyzer does
\* not raise, and when it has returned the four assumption fields hold the
\* values of __init__.
C17_RunOnDefaultsCompletesUnchanged ==
    (ret.method = "run_full_financial_analysis" /\ FromDefaults) =>
        /\ ret.status # "raised"
        /\ ret.status = "returned" => AllAssumptions = DefaultAssumptions

\* run_full_financial_analysis has returned on a fresh analyzer, its
\* sensitivity sweep done
C17_Witness ==
    /\ ReturnedFrom("run_full_financial_analysis")
    /\ FromDefaults
    /\ DOMAIN sensitivity.cac_sensitivity = {"CAC_20", "CAC_25", "CAC_30"}
    /\ DOMAIN sensitivity.churn_sensitivity = {"Churn_3%", "Churn_5%", "Churn_7%"}

\* C18: a second call of project_revenue with nothing in between returns what
\* the first returned and finds the assumptions as the first found them; a
\* second call of analyze_competitor_strengths on the same loaded table ends
\* as the first did, with the same result.
C18_RepeatedCallsAgree ==
    /\ (ret.method = "project_revenue" /\ ret.again) =>
            /\ ret.revenue_projections = ret.before
            /\ AllAssumptions = ret.entry
    /\ (outcome # "none" /\ prev.valid) =>
            /\ outcome = prev.outcome
            /\ results = prev.value

\* project_revenue has been called twice in a row with a revenue to report,
\* and a table of records has been analysed twice
C18_Witness ==
    /\ ret.method = "project_revenue" /\ ret.again
    /\ ret.revenue_projections.annual_revenue_year_1 > 0
    /\ Returned /\ prev.valid /\ ~EmptyOrAbsent
    /\ results.total_competitors >= 2

\* C19 as stated: with the default assumptions the break_even_month that
\* run_full_financial_analysis reports is a month number between 1 and 12.
C19_DefaultBreakEvenWithinFirstYear ==
    (ReturnedFrom("run_full_financial_analysis") /\ FromDefaults) =>
        ret.roi_analysis.break_even_month \in 1..12

\* calculate_roi_metrics has returned, by itself or inside
\* run_full_financial_analysis
RoiReturned ==
    ReturnedFrom("calculate_roi_metrics") \/ ReturnedFrom("run_full_financial_analysis")

\* monthly revenue x gross margin % - total monthly operating cost, for the
\* assumptions the last call found
NetOfMonth(k) ==
    LET e == ret.entry
        revenue == project_revenue(e.unit_economics, e.growth_assumptions)
    IN  (revenue.year_1_monthly_revenue[k] * e.unit_economics.gross_margin_percentage)
            \div 100
        - Fixed(MonthlyTotal(e.monthly_operating_costs))

\* -total_development_cost + the sum of the first m monthly net cash flows
RECURSIVE CumulativeAt(_)
CumulativeAt(m) ==
    IF m = 0 THEN 0 - Fixed(DevelopmentTotal(ret.entry.development_costs))
    ELSE CumulativeAt(m - 1) + NetOfMonth(m)

\* C22: break_even_month of calculate_roi_metrics is the least m in 1..12
\* whose cumulative net cash flow, counted from minus the development cost,
\* is zero or more; it is None exactly when there is no such m.
C22_BreakEvenIsFirstNonNegativeMonth ==
    RoiReturned =>
        LET b == ret.roi_analysis.break_even_month
        IN  IF \A m \in 1..12 : CumulativeAt(m) < 0
            THEN b = None
            ELSE /\ b \in 1..12
                 /\ CumulativeAt(b) >= 0
                 /\ \A m \in 1..(b - 1) : CumulativeAt(m) < 0

\* calculate_roi_metrics has returned a break-even later than month 1
C22_Witness ==
    /\ RoiReturned
    /\ ret.roi_analysis.break_even_month \in 2..12
    /\ CumulativeAt(1) < 0

\* the annual index (0 = the investment, 1..3 = the years) at which the
\* cumulative annual cash flow of the last call is first zero or more
CrossingYear ==
    LET cumulative == ret.roi_analysis.cumulative_cash_flows
    IN  IF \E i \in DOMAIN cumulative : cumulative[i] >= 0
        THEN (CHOOSE i \in DOMAIN cumulative :
                  cumulative[i] >= 0 /\ \A j \in 1..(i - 1) : cumulative[j] < 0) - 1
        ELSE None

\* C23 as stated: when the cumulative annual cash flow first becomes
\* non-negative at annual index i >= 1 with a positive cash flow of year i,
\* payback_period_years = (i - 1) + |cumulative before year i| / cashFlow[i],
\* a value between i - 1 and i.
C23_PaybackInterpolatesInsideCrossingYear ==
    RoiReturned =>
        LET cumulative == ret.roi_analysis.cumulative_cash_flows
            i == CrossingYear
            before == cumulative[i]
            cf == cumulative[i + 1] - before
            payback == ret.roi_analysis.payback_period_years
        IN  (i # None /\ i >= 1 /\ cf > 0) =>
                /\ payback = Fixed(i - 1) + (Abs(before) * 1000) \div cf
                /\ Fixed(i - 1) <= payback /\ payback <= Fixed(i)

\* project_revenue has returned, by itself or inside
\* run_full_financial_analysis
RevenueReturned ==
    ReturnedFrom("project_revenue") \/ ReturnedFrom("run_full_financial_analysis")

\* the customers of year 2 and of year 3, from the month-12 count returned
Year2Customers ==
    (ret.revenue_projections.year_1_monthly_customers[12]
        * (100 + ret.entry.growth_assumptions.year_2_growth_rate_annual)) \div 100

Year3Customers ==
    (Year2Customers * (100 + ret.entry.growth_assumptions.year_3_growth_rate_annual))
        \div 100

\* customers x avg_transaction_value x 12, the annual revenue before any
\* scenario factor
Unscaled(customers) == customers * ret.entry.unit_economics.avg_transaction_value * 12

\* C24 as stated: the base-case annual revenue returned for year 2 is
\* year2Customers x avg_transaction_value x 12, and for year 3 the same with
\* the customers of year 3 grown from those of year 2.
C24_BaseCaseIsUnscaledRevenue ==
    RevenueReturned =>
        /\ ret.revenue_projections.base_case[2] = Unscaled(Year2Customers)
        /\ ret.revenue_projections.base_case[3] = Unscaled(Year3Customers)

\* C24, amended: the base-case annual revenue returned for year 2 is 0.7 x
\* year2Customers x avg_transaction_value x 12, year2Customers being the
\* month-12 count grown by the year-2 rate; year 3 is 0.7 x the same product
\* for the customers of year 2 grown by the year-3 rate.
C24_BaseCaseIsScaledRevenue ==
    RevenueReturned =>
        /\ ret.revenue_projections.base_case[2] = (Unscaled(Year2Customers) * 7) \div 10
        /\ ret.revenue_projections.base_case[3] = (Unscaled(Year3Customers) * 7) \div 10

\* project_revenue has returned revenues for growing customer numbers
C24_Witness ==
    /\ RevenueReturned
    /\ ret.revenue_projections.base_case[2] > 0
    /\ Year3Customers > Year2Customers
    /\ Year2Customers > ret.revenue_projections.year_1_monthly_customers[12]

\* the sum of the first n entries of a series
RECURSIVE SumOfFirst(_, _)
SumOfFirst(series, n) == IF n = 0 THEN 0 ELSE SumOfFirst(series, n - 1) + series[n]

\* C25: project_revenue returns twelve monthly customer counts, the first
\* the base count and each later one the one before it grown by the monthly
\* rate; the revenue of a month is its customers x avg_transaction_value and
\* the annual revenue of year 1 is the sum of the twelve monthly revenues.
C25_YearOneCompounds ==
    RevenueReturned =>
        LET r == ret.revenue_projections
            g == ret.entry.growth_assumptions
            customers == r.year_1_monthly_customers
        IN  /\ Len(customers) = 12
            /\ customers[1] = Fixed(g.year_1_monthly_customers_base)
            /\ \A k \in 2..12 :
                  customers[k] =
                      (customers[k - 1] * (100 + g.year_1_growth_rate_monthly)) \div 100
            /\ Len(r.year_1_monthly_revenue) = 12
            /\ \A k \in 1..12 :
                  r.year_1_monthly_revenue[k] =
                      customers[k] * ret.entry.unit_economics.avg_transaction_value
            /\ r.annual_revenue_year_1 = SumOfFirst(r.year_1_monthly_revenue, 12)
            /\ r.base_case[1] = r.annual_revenue_year_1

\* project_revenue has returned a growing series with a revenue
C25_Witness ==
    /\ RevenueReturned
    /\ ret.revenue_projections.year_1_monthly_customers[3]
          > ret.revenue_projections.year_1_monthly_customers[2]
    /\ ret.revenue_projections.annual_revenue_year_1 > 0

\* C26: the optimistic annual revenue of each of the three years is 1.3 x
\* the unscaled annual revenue of that year, with no other factor.
C26_OptimisticIsUniformlyScaled ==
    RevenueReturned =>
        LET r == ret.revenue_projections
        IN  /\ Len(r.optimistic_case) = 3
            /\ r.optimistic_case[1] = (r.annual_revenue_year_1 * 13) \div 10
            /\ r.optimistic_case[2] = (Unscaled(Year2Customers) * 13) \div 10
            /\ r.optimistic_case[3] = (Unscaled(Year3Customers) * 13) \div 10

\* project_revenue has returned an optimistic case above the revenue of
\* year 1
C26_Witness ==
    /\ RevenueReturned
    /\ ret.revenue_projections.optimistic_case[1]
          > ret.revenue_projections.annual_revenue_year_1
    /\ ret.revenue_projections.optimistic_case[3]
          > ret.revenue_projections.optimistic_case[2]

\* C28 as stated: calculate_unit_economics returns without raising for
\* every combination of non-negative assumptions, a gross margin of 0 with a
\* positive transaction value included.
C28_UnitEconomicsNeverRaises ==
    ret.method = "calculate_unit_economics" => ret.status = "returned"

\* C30: for the same assumptions the twelve cumulative_monthly_cash_flows of
\* calculate_roi_metrics equal, entry for entry, the cumulative_cash_flow of
\* generate_cash_flow_projection, and months_to_positive_cash_flow is
\* break_even_month - 1 when there is a crossing, both None when there is not.
C30_MonthlyViewsAgree ==
    ReturnedFrom("run_full_financial_analysis") =>
        LET roi == ret.roi_analysis
            cash == ret.cash_flow_projection
        IN  /\ Len(roi.cumulative_monthly_cash_flows) = 12
            /\ Len(cash.cumulative_cash_flow) = 12
            /\ \A k \in 1..12 :
                  roi.cumulative_monthly_cash_flows[k] = cash.cumulative_cash_flow[k]
            /\ IF roi.break_even_month = None
               THEN cash.months_to_positive_cash_flow = None
               ELSE /\ cash.months_to_positive_cash_flow # None
                    /\ cash.months_to_positive_cash_flow = roi.break_even_month - 1

\* both methods have run on the same assumptions and report a crossing
\* after the first month
C30_Witness ==
    /\ ReturnedFrom("run_full_financial_analysis")
    /\ ret.roi_analysis.break_even_month \in 2..12
    /\ ret.cash_flow_projection.months_to_positive_cash_flow >= 1
    /\ ret.cash_flow_projection.cumulative_cash_flow[1] < 0

-----------------------------------------------------------------------------
(* Properties of the CompetitorDataCollector                               *)

\* C21 as stated: when data_dir names a directory that does not exist,
\* create_competitor_template returns None instead of a file path.
C21_MissingDirectoryGivesNone ==
    (collector.method = "create_competitor_template" /\ collector.dir_was_missing) =>
        collector.value = NoPath

-----------------------------------------------------------------------------
(* Properties of perform_sensitivity_analysis                              *)

SweptFieldsAsBefore ==
    /\ unit_economics.customer_acquisition_cost = pre_call.customer_acquisition_cost
    /\ unit_economics.monthly_churn_rate = pre_call.monthly_churn_rate

\* C1: when perform_sensitivity_analysis has returned normally, the CAC and
\* the churn field hold the values they had when the call began, whatever
\* those values were.
C1_NormalReturnRestoresFields == fpc = "returned" => SweptFieldsAsBefore

\* a call has returned on fields that began outside the swept candidates
C1_Witness ==
    /\ fpc = "returned"
    /\ pre_call.customer_acquisition_cost = 40
    /\ pre_call.monthly_churn_rate = 12
    /\ DOMAIN sensitivity.cac_sensitivity = {"CAC_20", "CAC_25", "CAC_30"}
    /\ DOMAIN sensitivity.churn_sensitivity = {"Churn_3%", "Churn_5%", "Churn_7%"}

\* C2 as stated: when an exception has left perform_sensitivity_analysis, the
\* CAC and the churn field hold the values they had when the call began.
C2_RaiseRestoresFields == fpc = "raised" => SweptFieldsAsBefore

CacAsBefore ==
    unit_economics.customer_acquisition_cost = pre_call.customer_acquisition_cost

ChurnAsBefore == unit_economics.monthly_churn_rate = pre_call.monthly_churn_rate

\* perform_sensitivity_analysis is running: in the CAC sweep, in the churn
\* sweep or at its return statement
InCacSweep == fpc \in {"cac_override", "cac_recompute", "cac_restore"}
InChurnSweep == fpc \in {"churn_override", "churn_recompute", "churn_restore"}

\* the keys of the candidates up to the i-th
CacKeysUpTo(i) == {CacKey(cac_variations[k]) : k \in 1..i}
ChurnKeysUpTo(i) == {ChurnKey(churn_variations[k]) : k \in 1..i}

\* C27: while perform_sensitivity_analysis runs, at most one of the CAC and
\* the churn field differs from its pre-call value; the CAC field is back at
\* its pre-call value for the whole churn sweep; every recomputation runs
\* with one field set to the current candidate and the other untouched, and
\* its result is stored under the key of that candidate.
C27_SweepsAreSequential ==
    /\ (InCacSweep \/ InChurnSweep \/ fpc = "return") => (CacAsBefore \/ ChurnAsBefore)
    /\ (InChurnSweep \/ fpc = "return") => CacAsBefore
    /\ InCacSweep => ChurnAsBefore /\ frame.roi_churn_sensitivity = EmptyDict
    /\ fpc = "cac_override" =>
          CacAsBefore /\ DOMAIN frame.roi_cac_sensitivity = CacKeysUpTo(frame.i - 1)
    /\ fpc = "cac_recompute" =>
          /\ unit_economics.customer_acquisition_cost = cac_variations[frame.i]
          /\ DOMAIN frame.roi_cac_sensitivity = CacKeysUpTo(frame.i - 1)
    /\ fpc = "cac_restore" =>
          /\ unit_economics.customer_acquisition_cost = cac_variations[frame.i]
          /\ DOMAIN frame.roi_cac_sensitivity = CacKeysUpTo(frame.i)
          /\ frame.roi_cac_sensitivity[CacKey(cac_variations[frame.i])]
                = Recompute(frame.base_investment)
    /\ fpc = "churn_override" =>
          ChurnAsBefore /\ DOMAIN frame.roi_churn_sensitivity = ChurnKeysUpTo(frame.i - 1)
    /\ fpc = "churn_recompute" =>
          /\ unit_economics.monthly_churn_rate = churn_variations[frame.i]
          /\ DOMAIN frame.roi_churn_sensitivity = ChurnKeysUpTo(frame.i - 1)
    /\ fpc = "churn_restore" =>
          /\ unit_economics.monthly_churn_rate = churn_variations[frame.i]
          /\ DOMAIN frame.roi_churn_sensitivity = ChurnKeysUpTo(frame.i)
          /\ frame.roi_churn_sensitivity[ChurnKey(churn_variations[frame.i])]
                = Recompute(frame.base_investment)
    /\ (InChurnSweep \/ fpc = "return") =>
          DOMAIN frame.roi_cac_sensitivity = CacKeysUpTo(Len(cac_variations))

\* the second churn candidate is being recomputed, both fields having begun
\* outside the candidates
C27_Witness ==
    /\ fpc = "churn_recompute"
    /\ frame.i = 2
    /\ pre_call.customer_acquisition_cost = 40
    /\ pre_call.monthly_churn_rate = 12
    /\ unit_economics.monthly_churn_rate = 5
    /\ unit_economics.customer_acquisition_cost = 40

\* C29: every entry of cac_sensitivity and of churn_sensitivity that
\* perform_sensitivity_analysis returns equals base_roi, whatever the
\* assumptions: roi_1_year depends on neither swept field.
C29_SweepEntriesEqualBaseRoi ==
    fpc = "returned" =>
        /\ \A k \in DOMAIN sensitivity.cac_sensitivity :
              sensitivity.cac_sensitivity[k] = sensitivity.base_roi
        /\ \A k \in DOMAIN sensitivity.churn_sensitivity :
              sensitivity.churn_sensitivity[k] = sensitivity.base_roi

\* a sweep has returned six entries and a base ROI other than 0, the fields
\* having begun outside the candidates
C29_Witness ==
    /\ fpc = "returned"
    /\ DOMAIN sensitivity.cac_sensitivity = CacKeysUpTo(3)
    /\ DOMAIN sensitivity.churn_sensitivity = ChurnKeysUpTo(3)
    /\ sensitivity.base_roi.num # 0
    /\ pre_call.customer_acquisition_cost = 0
    /\ pre_call.monthly_churn_rate = 12

====
